---- MODULE Spec2Model ----
(***************************************************************************)
(* Parallel verification and recovery pipeline of BrickMove1:              *)
(*   LeanCheck/parallel_build_checker.py  (build_lean_file,                *)
(*       run_parallel_build_check, main)                                   *)
(*   LLM_Agent/llm_recheck_agent.py       (regenerate_file, main)          *)
(*   LLM_Agent/llm_agent.py               (OpenRouterClient.chat_completion)*)
(*                                                                         *)
(* Spec      : one run of either main(): the build check with its retry,   *)
(*             and for the recheck agent the backup, the regeneration, the *)
(*             second build pass and the rollback.                         *)
(* SpecChat  : one call of OpenRouterClient.chat_completion, request by    *)
(*             request.                                                    *)
(***************************************************************************)
EXTENDS Integers, Sequences, FiniteSets, TLC

\* ------------------------------------------------------------------ bounds
\* Largest number of Lean files the glob finds in the target directory.
NumArtifacts == 2

\* args.retries of the recheck agent (its default is 1).
Retries == 1

\* Largest number of file reads and writes that raise in one run.
MaxFaults == 1

\* attempts = 5 in chat_completion.
Attempts == 5

\* The log files written that a sequence of build_lean_file calls is followed
\* for.
MaxLogWrites == 3

\* ----------------------------------------------------------------- helpers
Range(s) == {s[i] : i \in 1..Len(s)}

EmptyMap == [x \in {} |-> 0]

\* dict.get(k): the value, or None
HasKey(m, k) == k \in DOMAIN m

\* d[k] = v
Put(m, k, v) == [x \in DOMAIN m \cup {k} |-> IF x = k THEN v ELSE m[x]]

Min(a, b) == IF a <= b THEN a ELSE b

Max(a, b) == IF a >= b THEN a ELSE b

\* A read or write that raises counts as one fault.
Cost(ok) == IF ok THEN 0 ELSE 1

\* sorted(S) for a set of block ids
RECURSIVE Sorted(_)
Sorted(S) ==
    IF S = {} THEN <<>>
    ELSE LET m == CHOOSE x \in S : \A y \in S : x <= y
         IN <<m>> \o Sorted(S \ {m})

\* [x for x in s if P(x)]
Filter(s, P(_)) == SelectSeq(s, P)

\* -------------------------------------------------------------- the inputs
\* Block ids (file stems); the glob of one directory yields each stem once.
Artifacts == 1..NumArtifacts

\* What one run of the compiler subprocess can end in.
ExitCodes == {0, 1}

\* "error" is any exception of the try block of lines 59-101: with returncode -1
\* the subprocess could not be spawned, with an exit code it ran and writing
\* the log file raised.
CompileOutcomes ==
    {[kind |-> "exit", returncode |-> c] : c \in ExitCodes}
        \cup {[kind |-> "timeout", returncode |-> -1],
              [kind |-> "error", returncode |-> -1]}
        \cup {[kind |-> "error", returncode |-> c] : c \in ExitCodes}

NoLog == <<>>

\* File contents, as opaque texts.
Original == "orig"

\* ------------------------------------------------------------------- state
VARIABLES
    entry,              \* which main() runs: "checker" or "recheck"
    scope,              \* args.second_build_scope
    workers,            \* args.workers of the recheck agent
    lean_files,         \* the ids the glob finds
    cb_raises,          \* whether progress_cb raises an Exception when called
    pc,                 \* position of the main thread
    exit_status,        \* process exit status, -1 while running
    faults,             \* file reads and writes that have raised so far
    call,               \* number of the current call of run_parallel_build_check
    pending,            \* futures submitted and not yet completed
    results,            \* the entries appended to results; the order of completion
                        \* is kept by successful_builds and failed_builds
    successful_builds,
    failed_builds,
    retry_results,
    summary,            \* the dict run_parallel_build_check returns
    compiled,           \* history: outcomes of build_lean_file per <<call, id, attempt>>
    events,             \* history: the events passed to progress_cb
    prepared,           \* history: per run of prepare_project, whether lake
                        \* build succeeded and the compiles dispatched before
    summary1,           \* keys of the first summary main reads later
    to_fix,
    original_cache,
    bak,                \* the .lean.bak files of backups_dir
    idx,                \* loop index of the backup loop and of the restore loop
    content,            \* on-disk text of each artifact
    regen_done,         \* artifacts whose regenerate_file call has returned
    regen_failed,
    wrote,              \* history: artifacts regenerate_file has overwritten
    successful,
    failed,
    summary2,
    final_failed,
    restored,
    chat_pc,            \* chat_completion: position
    sent,               \* chat_completion: responses to the requests sent so far
    delay,
    last_err,
    slept,              \* chat_completion: the sleeps taken
    regen_pc,           \* regenerate_file followed call by call: position
    regen_attempt,      \* regenerate_file: attempt
    chat_calls,         \* history: what each call of chat_completion gave
    requests,           \* history: requests sent for the artifact
    fatal_at,           \* history: requests sent when a non-retryable status
                        \* first came back (0: none came)
    run500,             \* history: HTTP 500 answers in a row up to the last request
    max500,             \* history: the longest such row
    all_retryable,      \* history: every answer so far was 429, 5xx or URLError
    regen_result,       \* what regenerate_file returned
    built_text,         \* history: the text the post-regeneration compile read
    run,                \* the pipeline run in succession: 1 or 2
    first_run,          \* what the first of two runs ended with
    BUILD_STATUS,       \* model_config_server: the shared progress record
    build_threads,      \* model_config_server: the build threads started
    handlers,           \* model_config_server: the /build-start requests
    logs,               \* the log files of output_dir: per file, the attempts
                        \* that have written it
    built               \* the last call of build_lean_file and what it returned

histVars == <<compiled, events, prepared>>

buildVars == <<call, pending, results, successful_builds, failed_builds,
               retry_results, summary, histVars>>

regenVars == <<summary1, to_fix, original_cache, bak, idx, content, regen_done,
               regen_failed, wrote>>

secondVars == <<successful, failed, summary2, final_failed, restored>>

argVars == <<entry, scope, workers, lean_files, cb_raises>>

chatVars == <<chat_pc, sent, delay, last_err, slept>>

stepVars == <<regen_pc, regen_attempt, chat_calls, requests, fatal_at, run500,
              max500, all_retryable, regen_result, built_text>>

\* The variables the pipeline leaves alone.
logVars == <<logs, built>>

rerunVars == <<run, first_run>>

serverVars == <<BUILD_STATUS, build_threads, handlers>>

otherVars == <<rerunVars, serverVars>>

asideVars == <<chatVars, stepVars, logVars, otherVars>>

vars == <<argVars, pc, exit_status, faults, buildVars, regenVars, secondVars, asideVars>>


\* ------------------------------------------------------- build_lean_file
\* What build_lean_file returns for one outcome of the compiler subprocess.
BuildLeanFile(block_id, log_suffix, o) ==
    IF o.kind = "exit"
    THEN [block_id |-> block_id,
          success |-> (o.returncode = 0),
          stdout |-> "out",
          stderr |-> IF o.returncode = 0 THEN "" ELSE "diag",
          log_file |-> <<block_id, log_suffix>>]
    ELSE IF o.kind = "timeout"
    THEN [block_id |-> block_id, success |-> FALSE, stdout |-> "",
          stderr |-> "Build timeout after 60 seconds", log_file |-> NoLog]
    ELSE [block_id |-> block_id, success |-> FALSE, stdout |-> "",
          stderr |-> "Build error", log_file |-> NoLog]

\* The entry of detailed_results made from a build_lean_file result. Its log
\* path and its counts of output lines are written to the summary file only; no
\* code reads them back, and they are left out of the entry.
ResultEntry(r, attempt) ==
    [block_id |-> r.block_id,
     success |-> r.success,
     attempt |-> attempt]

AttemptLabels == {"initial", "retry", "postregen"}

CompiledKeys == {1, 2} \X Artifacts \X AttemptLabels

\* Line 88: the log files are named {block_id}_{log_suffix}.log
LogSuffixes == {"build", "rebuild", "postregen"}

LogNames == Artifacts \X LogSuffixes

\* Lines 88-96: open(log_file, 'w') replaces the file; a log holds the return
\* code of the subprocess. Only a subprocess that has exited gets there; a log
\* whose writing raised is taken as not written.
WriteLog(lg, block_id, log_suffix, o) ==
    IF o.kind = "exit"
    THEN [lg EXCEPT ![<<block_id, log_suffix>>] = Append(@, o.returncode)]
    ELSE lg

\* Lines 163, 207 and 280: the log suffix each attempt label is built with.
LogSuffix(att) ==
    CASE att = "initial" -> "build"
      [] att = "retry" -> "rebuild"
      [] att = "postregen" -> "postregen"

\* progress_cb is passed by the build thread of model_config_server only.
HasCallback == entry = "server"

\* Lines 143-147, 186-195, 279-283: if progress_cb: progress_cb(event)
EmitNothing(evts, e) == evts

Emit(evts, e) == IF HasCallback THEN Append(evts, e) ELSE evts

\* AfterProgress with a slip: the exception of the callback leaves the call.
AfterProgressUncaught(next) ==
    IF HasCallback /\ cb_raises THEN "exception" ELSE next

\* Lines 143-147, 186-195, 279-283: try: progress_cb(event) except Exception:
\* pass. Whatever the callback does, the function goes on where it was.
AfterProgress(next) == next

\* One more invocation of build_lean_file in the history.
Invoked(c, a, attempt, success) ==
    [compiled EXCEPT ![<<c, a, attempt>>] = Append(@, success)]

\* ----------------------------------------------- run_parallel_build_check
\* retry_results.get(b)
RetryGet(retry, b) == HasKey(retry, b) /\ retry[b]

\* Reconcile with a slip: an id recovered by the retry stays in the failed list.
ReconcileKeepsRecovered(succ, failedb, retry) ==
    LET recovered == Filter(failedb, LAMBDA b : RetryGet(retry, b))
    IN [recovered_blocks |-> recovered,
        still_failed_blocks |-> failedb,
        successful_builds |-> Sorted(Range(succ) \cup Range(recovered)),
        failed_builds |-> failedb]

\* Reconcile with a slip: a recovered id is not added to the successes.
ReconcileDropsRecovered(succ, failedb, retry) ==
    LET recovered == Filter(failedb, LAMBDA b : RetryGet(retry, b))
        still == Filter(failedb, LAMBDA b : ~RetryGet(retry, b))
    IN [recovered_blocks |-> recovered,
        still_failed_blocks |-> still,
        successful_builds |-> Sorted(Range(succ)),
        failed_builds |-> still]

\* Reconcile with a slip: only the id that failed first is looked up in
\* retry_results.
ReconcileHeadOnly(succ, failedb, retry) ==
    LET recovered == Filter(failedb, LAMBDA b : b = failedb[1] /\ RetryGet(retry, b))
        still == Filter(failedb, LAMBDA b : ~(b = failedb[1] /\ RetryGet(retry, b)))
    IN [recovered_blocks |-> recovered,
        still_failed_blocks |-> still,
        successful_builds |-> Sorted(Range(succ) \cup Range(recovered)),
        failed_builds |-> still]

\* The reconciliation after the retry pass.
Reconcile(succ, failedb, retry) ==
    LET recovered == Filter(failedb, LAMBDA b : RetryGet(retry, b))
        still == Filter(failedb, LAMBDA b : ~RetryGet(retry, b))
    IN [recovered_blocks |-> recovered,
        still_failed_blocks |-> still,
        successful_builds |-> Sorted(Range(succ) \cup Range(recovered)),
        failed_builds |-> still]

\* len(successful) / len(files) * 100, as the fraction <<numerator, denominator>>
SuccessRateUnguarded(nsucc, total) == <<nsucc * 100, total>>

SuccessRate(nsucc, total) ==
    IF total > 0 THEN <<nsucc * 100, total>> ELSE <<0, 1>>

\* The summary dict (the timestamp left out).
MakeSummary(total, succ, failedb, recovered, res) ==
    [total_files |-> total,
     successful_builds |-> Len(succ),
     failed_builds |-> Len(failedb),
     success_rate |-> SuccessRate(Len(succ), total),
     successful_blocks |-> succ,
     failed_blocks |-> failedb,
     retry_attempted |-> (recovered # <<>> \/ failedb # <<>>),
     recovered_blocks |-> recovered,
     still_failed_blocks |-> failedb,
     detailed_results |-> res]

NoSummary ==
    MakeSummary(0, <<>>, <<>>, <<>>, {})

\* The calls of build_lean_file made so far.
RECURSIVE Completed(_)
Completed(K) ==
    IF K = {} THEN 0
    ELSE LET k == CHOOSE x \in K : TRUE
         IN Len(compiled[k]) + Completed(K \ {k})

Dispatched == Completed(CompiledKeys) + Cardinality(pending)

\* What a subprocess.run of prepare_project ends in: exit 0, another exit code,
\* or an exception (lake is not installed).
PrepareOutcomes == {"ok", "nonzero", "raise"}

\* Lines 35-50: prepare_project catches and logs every failure and returns;
\* the value is whether the dependencies were built.
PrepareProject(cache_get, lake_build) ==
    [returned |-> TRUE, ok |-> (lake_build = "ok")]

\* Lines 120-164: prepare the project, glob, submit every file with suffix "build".
StartBuildCheck(c) ==
    /\ \E cache_get \in PrepareOutcomes, lake_build \in PrepareOutcomes :
        LET prep == PrepareProject(cache_get, lake_build)
        IN /\ prep.returned
           /\ prepared' = Append(prepared, [ok |-> prep.ok, dispatched |-> Dispatched])
    /\ events' = Emit(events, [phase |-> "init", total |-> Cardinality(lean_files)])
    /\ call' = c
    /\ pending' = lean_files
    /\ results' = {}
    /\ successful_builds' = <<>>
    /\ failed_builds' = <<>>
    /\ retry_results' = EmptyMap
    /\ summary' = NoSummary
    /\ pc' = AfterProgress("initial")

\* Lines 167-195: one future of the first executor completes.
CompleteInitial(a, o) ==
    /\ pc = "initial"
    /\ a \in pending
    /\ LET r == BuildLeanFile(a, "build", o)
       IN /\ results' = results \cup {ResultEntry(r, "initial")}
          /\ IF r.success
             THEN /\ successful_builds' = Append(successful_builds, r.block_id)
                  /\ UNCHANGED failed_builds
             ELSE /\ failed_builds' = Append(failed_builds, r.block_id)
                  /\ UNCHANGED successful_builds
          /\ compiled' = Invoked(call, a, "initial", r.success)
          /\ events' = Emit(events, [phase |-> "file", block_id |-> r.block_id,
                                     success |-> r.success, log_file |-> r.log_file])
    /\ pending' = pending \ {a}
    /\ pc' = AfterProgress(pc)
    /\ UNCHANGED <<argVars, exit_status, faults, call, retry_results, summary,
                   prepared, regenVars, secondVars, asideVars>>

\* RetryFiles with a slip: every file is built again.
RetryEveryFile(failedb) == lean_files

\* Line 203: retry_files = [id_to_file[b] for b in failed_builds if b in id_to_file]
RetryFiles(failedb) == Range(Filter(failedb, LAMBDA b : b \in lean_files))

\* Lines 200-209: the failed files are submitted again with suffix "rebuild".
SubmitRetries ==
    /\ pc = "initial"
    /\ pending = {}
    /\ failed_builds # <<>>
    /\ pending' = RetryFiles(failed_builds)
    /\ retry_results' = EmptyMap
    /\ pc' = "retry"
    /\ UNCHANGED <<argVars, exit_status, faults, call, results, successful_builds,
                   failed_builds, summary, histVars, regenVars, secondVars,
                   asideVars>>

\* Lines 210-227: one future of the retry executor completes.
CompleteRetry(a, o) ==
    /\ pc = "retry"
    /\ a \in pending
    /\ LET r == BuildLeanFile(a, "rebuild", o)
       IN /\ retry_results' = Put(retry_results, a, r.success)
          /\ results' = results \cup {ResultEntry(r, "retry")}
          /\ compiled' = Invoked(call, a, "retry", r.success)
    /\ pending' = pending \ {a}
    /\ UNCHANGED <<argVars, pc, exit_status, faults, call, successful_builds,
                   failed_builds, summary, events, prepared, regenVars, secondVars,
                   asideVars>>

\* The summary of lines 229-255 for the lists as they stand.
FinalSummary ==
    IF failed_builds # <<>>
    THEN LET rec == Reconcile(successful_builds, failed_builds, retry_results)
         IN MakeSummary(Cardinality(lean_files), rec.successful_builds,
                        rec.failed_builds, rec.recovered_blocks, results)
    ELSE MakeSummary(Cardinality(lean_files), successful_builds, failed_builds,
                     <<>>, results)

\* Lines 229-284: reconcile, build the summary, save it, emit the done event and
\* return the summary. Writing build_summary.json may raise; main() of the
\* checker catches that and returns 1, the recheck agent lets it end the
\* process, the build thread of the server sets the state 'error'. The locals
\* end with the call.
Summarize ==
    /\ \/ pc = "initial" /\ pending = {} /\ failed_builds = <<>>
       \/ pc = "retry" /\ pending = {}
    /\ \E saved \in BOOLEAN :
        /\ faults + Cost(saved) <= MaxFaults
        /\ faults' = faults + Cost(saved)
        /\ IF saved
           THEN /\ summary' = FinalSummary
                /\ events' = Emit(events, [phase |-> "done", summary |-> FinalSummary])
                /\ pc' = AfterProgress("returned")
                /\ UNCHANGED exit_status
           ELSE /\ pc' = IF entry = "server" THEN "server_error" ELSE "exception"
                /\ exit_status' = IF entry = "server" THEN exit_status ELSE 1
                /\ UNCHANGED <<summary, events>>
    /\ results' = {}
    /\ successful_builds' = <<>>
    /\ failed_builds' = <<>>
    /\ retry_results' = EmptyMap
    /\ UNCHANGED <<argVars, call, pending, compiled, prepared, regenVars,
                   secondVars, asideVars>>

\* --------------------------------------------- parallel_build_checker.main
\* Lines 302-322: parse --range, then run the build check.
CheckerMain ==
    /\ pc = "start"
    /\ entry = "checker"
    /\ \E range_ok \in BOOLEAN :
        IF range_ok
        THEN /\ StartBuildCheck(1)
             /\ UNCHANGED <<exit_status, compiled>>
        ELSE /\ pc' = "usage_error"
             /\ exit_status' = 1
             /\ UNCHANGED buildVars
    /\ UNCHANGED <<argVars, faults, regenVars, secondVars, asideVars>>

\* Line 325: return 1 if summary['failed_builds'] else 0
CheckerExit(sm) == IF sm.failed_builds # 0 THEN 1 ELSE 0

\* Lines 316-325: the build check has returned its summary; main returns.
CheckerReturn ==
    /\ pc = "returned"
    /\ entry = "checker"
    /\ exit_status' = CheckerExit(summary)
    /\ pc' = "checker_done"
    /\ UNCHANGED <<argVars, faults, buildVars, regenVars, secondVars, asideVars>>


\* --------------------------------- model_config_server: the build thread
\* Lines 96-100: worker() of _start_build runs the build check with progress_cb.
ServerWorker ==
    /\ pc = "start"
    /\ entry = "server"
    /\ StartBuildCheck(1)
    /\ UNCHANGED <<argVars, exit_status, faults, compiled, regenVars,
                   secondVars, asideVars>>

\* Line 100: the build check has returned and the thread ends.
ServerReturn ==
    /\ pc = "returned"
    /\ entry = "server"
    /\ pc' = "server_done"
    /\ UNCHANGED <<argVars, exit_status, faults, buildVars, regenVars, secondVars,
                   asideVars>>

\* -------------------------------------------------------- regenerate_file
\* What one call of client.chat_completion gives regenerate_file: an exception,
\* a reply without content, a reply with content, or a JSON value that lines
\* 89-90 cannot take apart (not an object, or with a choice that is not one):
\* data.get or choice.get raises outside every try block.
ChatOutcomes == {"raise", "empty", "content", "malformed"}

\* llm_recheck_agent.py line 144: --workers, 50 unless given; 1 for the
\* sequential loop of lines 243-249.
DefaultWorkers == 50
WorkerCounts == {1, DefaultWorkers}

\* What base.build_fallback_skeleton(src) does: returns a skeleton, returns None
\* (no theorem or lemma in the source), or raises.
FallbackOutcomes == {"skeleton", "none", "raise"}

\* Lines 77-94: the loop over chat_completion. chats[i] is what call i gives.
\* Yields the content the loop ends with ("" for none) and the calls made.
RECURSIVE ChatLoop(_, _, _)
ChatLoop(chats, attempt, retries) ==
    IF attempt > retries
    THEN [content |-> "", calls |-> attempt, raised |-> FALSE]
    ELSE IF chats[attempt + 1] = "content"
    THEN [content |-> "llm", calls |-> attempt + 1, raised |-> FALSE]
    ELSE IF chats[attempt + 1] = "malformed"
    THEN [content |-> "", calls |-> attempt + 1, raised |-> TRUE]
    ELSE ChatLoop(chats, attempt + 1, retries)

\* WriteFallback with a slip: without a skeleton the file is left as it is.
WriteFallbackNoTrivial(fb, write_ok, write2_ok) ==
    IF fb = "skeleton" /\ write_ok
    THEN [ok |-> TRUE, err |-> "", written |-> TRUE, text |-> "skeleton"]
    ELSE [ok |-> TRUE, err |-> "", written |-> FALSE, text |-> ""]

\* Lines 96-117: no content, so a fallback is written.
WriteFallback(fb, write_ok, write2_ok) ==
    IF fb = "skeleton" /\ write_ok
    THEN [ok |-> TRUE, err |-> "", written |-> TRUE, text |-> "skeleton"]
    ELSE IF write2_ok
    THEN [ok |-> TRUE, err |-> "", written |-> TRUE, text |-> "minimal"]
    ELSE [ok |-> FALSE, err |-> "write fallback error", written |-> FALSE, text |-> ""]

\* Lines 119-127: the content of the service is written.
WriteContent(text, write_ok) ==
    IF write_ok
    THEN [ok |-> TRUE, err |-> "", written |-> TRUE, text |-> text]
    ELSE [ok |-> FALSE, err |-> "write error", written |-> FALSE, text |-> ""]

\* regenerate_file as a function of what its reads, calls and writes end in.
\* A write that raises leaves the file as it was.
RegenerateFile(read_ok, chats, retries, fb, write_ok, write2_ok) ==
    IF ~read_ok
    THEN [ok |-> FALSE, err |-> "read error", written |-> FALSE, text |-> "",
          calls |-> 0, raised |-> FALSE]
    ELSE LET loop == ChatLoop(chats, 0, retries)
             w == IF loop.content = ""
                  THEN WriteFallback(fb, write_ok, write2_ok)
                  ELSE WriteContent(loop.content, write_ok)
         IN IF loop.raised
            THEN [ok |-> FALSE, err |-> "exception", written |-> FALSE,
                  text |-> "", calls |-> loop.calls, raised |-> TRUE]
            ELSE [ok |-> w.ok, err |-> w.err, written |-> w.written,
                  text |-> w.text, calls |-> loop.calls, raised |-> FALSE]

\* --------------------------------------------------- llm_recheck_agent.main
\* Lines 157-188: resolve the target directory and the API key, then the first
\* build pass.
RecheckMain ==
    /\ pc = "start"
    /\ entry = "recheck"
    /\ \E args_ok \in BOOLEAN :
        IF args_ok
        THEN /\ StartBuildCheck(1)
             /\ UNCHANGED <<exit_status, compiled>>
        ELSE /\ pc' = "usage_error"
             /\ exit_status' = 2
             /\ UNCHANGED buildVars
    /\ UNCHANGED <<argVars, faults, regenVars, secondVars, asideVars>>

\* [by_stem[s] for s in blocks if s in by_stem]; by_stem holds every globbed file.
ByStem(blocks) == Filter(blocks, LAMBDA s : s \in lean_files)

\* ToFix with a slip: every file of the summary is regenerated.
ToFixEveryFile(sm) == ByStem(sm.successful_blocks \o sm.failed_blocks)

\* ToFix with a slip: the files the retry recovered are regenerated as well.
ToFixWithRecovered(sm) == ByStem(sm.failed_blocks \o sm.recovered_blocks)

\* Lines 190-198: to_fix, from the failed_blocks of the first summary.
ToFix(sm) == ByStem(sm.failed_blocks)

\* PassKeys with a slip: the successful ids are not kept.
PassKeysNoSuccesses(sm) ==
    [total_files |-> sm.total_files,
     successful_builds |-> sm.successful_builds,
     success_rate |-> sm.success_rate,
     failed_builds |-> sm.failed_builds,
     failed_blocks |-> sm.failed_blocks,
     successful_blocks |-> <<>>]

\* The keys of a summary that main reads after the pass, with the counts the
\* success rate is computed from and the rate.
PassKeys(sm) ==
    [total_files |-> sm.total_files,
     successful_builds |-> sm.successful_builds,
     success_rate |-> sm.success_rate,
     failed_builds |-> sm.failed_builds,
     failed_blocks |-> sm.failed_blocks,
     successful_blocks |-> sm.successful_blocks]

\* Lines 190-217: nothing failed: return 0. Otherwise list the files to fix.
AfterFirstPass ==
    /\ pc = "returned"
    /\ entry = "recheck"
    /\ call = 1
    /\ summary1' = PassKeys(summary)
    /\ IF summary.failed_blocks = <<>>
       THEN /\ pc' = "nothing_to_regenerate"
            /\ exit_status' = 0
            /\ UNCHANGED <<to_fix, idx>>
       ELSE /\ to_fix' = ToFix(summary)
            /\ idx' = 1
            /\ pc' = "backup"
            /\ UNCHANGED exit_status
    /\ summary' = NoSummary
    /\ UNCHANGED <<argVars, faults, call, pending, results, successful_builds,
                   failed_builds, retry_results, histVars, original_cache, bak,
                   content, regen_done, regen_failed, wrote, secondVars, asideVars>>

\* What one turn of the backup loop leaves in original_cache: the try block
\* assigns the cache entry as soon as the read has returned.
BackupCache(cache, p, read_ok, text) ==
    IF read_ok THEN Put(cache, p, text) ELSE cache

\* The .lean.bak file is written after the cache entry, in the same try block.
BackupFile(files, p, read_ok, write_ok, text) ==
    IF read_ok /\ write_ok THEN Put(files, p, text) ELSE files

\* Lines 218-224: one turn of the backup loop; its errors are ignored.
BackupStep ==
    /\ pc = "backup"
    /\ idx <= Len(to_fix)
    /\ \E read_ok \in BOOLEAN, write_ok \in BOOLEAN :
        LET p == to_fix[idx]
        IN /\ faults + Cost(read_ok) + Cost(write_ok) <= MaxFaults
           /\ faults' = faults + Cost(read_ok) + Cost(write_ok)
           /\ original_cache' = BackupCache(original_cache, p, read_ok, content[p])
           /\ bak' = BackupFile(bak, p, read_ok, write_ok, content[p])
    /\ idx' = idx + 1
    /\ pc' = IF idx = Len(to_fix) THEN "regen" ELSE "backup"
    /\ UNCHANGED <<argVars, exit_status, buildVars, summary1, to_fix, content,
                   regen_done, regen_failed, wrote, secondVars, asideVars>>

\* The files whose regeneration may finish next: any task of the pool of lines
\* 228-241. With workers <= 1 the loop of lines 243-249 makes the same calls in
\* the order of to_fix, which is one of the orders the pool allows.
Regenerable == Range(to_fix) \ regen_done

\* Line 227: the pool of lines 228-241 is used, and not the loop of 243-249.
Pooled == workers > 1

\* Lines 226-249: regenerate_file runs for one file and main records its result.
\* An exception of the worker is caught at lines 232-235 when it comes out of
\* fut.result(); out of worker(p) at line 244 it leaves main.
Regenerate(p) ==
    /\ pc = "regen"
    /\ p \in Regenerable
    /\ \E read_ok \in BOOLEAN, chats \in [1..(Retries + 1) -> ChatOutcomes],
          fb \in FallbackOutcomes, write_ok \in BOOLEAN, write2_ok \in BOOLEAN :
        LET r == RegenerateFile(read_ok, chats, Retries, fb, write_ok, write2_ok)
            cost == Cost(read_ok) + Cost(write_ok) + Cost(write2_ok)
        IN /\ faults + cost <= MaxFaults
           /\ faults' = faults + cost
           /\ content' = IF r.written THEN [content EXCEPT ![p] = r.text] ELSE content
           /\ wrote' = IF r.written THEN wrote \cup {p} ELSE wrote
           /\ IF r.raised /\ ~Pooled
              THEN /\ pc' = "exception"
                   /\ exit_status' = 1
                   /\ UNCHANGED <<regen_failed, regen_done>>
              ELSE /\ regen_failed' = IF r.ok THEN regen_failed
                                      ELSE Append(regen_failed, <<p, r.err>>)
                   /\ regen_done' = regen_done \cup {p}
                   /\ UNCHANGED <<pc, exit_status>>
    /\ UNCHANGED <<argVars, buildVars, summary1, to_fix,
                   original_cache, bak, idx, secondVars, asideVars>>

\* Lines 251-280: every regeneration has returned; the second build pass starts,
\* over all files through run_parallel_build_check or over the failed ones here.
StartSecondPass ==
    /\ pc = "regen"
    /\ regen_done = Range(to_fix)
    /\ IF scope = "all"
       THEN /\ StartBuildCheck(2)
            /\ UNCHANGED <<successful, failed>>
       ELSE /\ pending' = Range(ByStem(summary1.failed_blocks))
            /\ results' = {}
            /\ successful' = <<>>
            /\ failed' = <<>>
            /\ pc' = "postregen"
            /\ UNCHANGED <<call, successful_builds, failed_builds, retry_results,
                           summary, events, prepared>>
    /\ UNCHANGED <<argVars, exit_status, faults, compiled, regenVars,
                   summary2,
                   final_failed, restored, asideVars>>

\* Lines 281-296: one future of the failed-only pass completes.
CompletePostregen(p, o) ==
    /\ pc = "postregen"
    /\ p \in pending
    /\ LET r == BuildLeanFile(p, "postregen", o)
       IN /\ results' = results \cup {ResultEntry(r, "postregen")}
          /\ IF r.success
             THEN /\ successful' = Append(successful, r.block_id)
                  /\ UNCHANGED failed
             ELSE /\ failed' = Append(failed, r.block_id)
                  /\ UNCHANGED successful
          /\ compiled' = Invoked(2, p, "postregen", r.success)
    /\ pending' = pending \ {p}
    /\ UNCHANGED <<argVars, pc, exit_status, faults, call, successful_builds,
                   failed_builds, retry_results, summary, events, prepared,
                   regenVars, summary2,
                   final_failed, restored, asideVars>>

\* FailedOnlySummary with a slip: every file of the pass is listed as failed.
FailedOnlySummaryAllFailed(subset, succ, failedb, res) ==
    [total_files |-> Len(subset),
     successful_builds |-> Len(succ),
     failed_builds |-> Len(failedb),
     success_rate |-> SuccessRate(Len(succ), Len(subset)),
     successful_blocks |-> succ,
     failed_blocks |-> succ \o failedb,
     detailed_results |-> res]

\* Lines 298-307: the summary of the failed-only pass.
FailedOnlySummary(subset, succ, failedb, res) ==
    [total_files |-> Len(subset),
     successful_builds |-> Len(succ),
     failed_builds |-> Len(failedb),
     success_rate |-> SuccessRate(Len(succ), Len(subset)),
     successful_blocks |-> succ,
     failed_blocks |-> failedb,
     detailed_results |-> res]

\* Lines 298-313, scope "failed": summary2 and the list to roll back. Of the
\* summary only the keys main reads are kept; detailed_results is not read again.
AfterPostregen ==
    /\ pc = "postregen"
    /\ pending = {}
    /\ LET sm == FailedOnlySummary(ByStem(summary1.failed_blocks), successful,
                                   failed, results)
       IN /\ summary2' = PassKeys(sm)
          /\ final_failed' = sm.failed_blocks
    /\ results' = {}
    /\ restored' = <<>>
    /\ idx' = 1
    /\ pc' = "restore"
    /\ UNCHANGED <<argVars, exit_status, faults, call, pending, successful_builds,
                   failed_builds, retry_results, summary, histVars, summary1,
                   to_fix, original_cache, bak, content, regen_done, regen_failed,
                   wrote, successful, failed, asideVars>>

\* Lines 263-270 and 310-313, scope "all": summary2 is what the second call of
\* run_parallel_build_check returned.
AfterSecondPass ==
    /\ pc = "returned"
    /\ entry = "recheck"
    /\ call = 2
    /\ summary2' = PassKeys(summary)
    /\ final_failed' = summary.failed_blocks
    /\ summary' = NoSummary
    /\ restored' = <<>>
    /\ idx' = 1
    /\ pc' = "restore"
    /\ UNCHANGED <<argVars, exit_status, faults, call, pending, results,
                   successful_builds, failed_builds, retry_results, histVars,
                   summary1, to_fix,
                   original_cache, bak, content, regen_done, regen_failed, wrote,
                   successful, failed, asideVars>>

\* RestoreSource with a slip: without a backup a placeholder text is restored.
RestoreSourcePlaceholder(cache, files, p, bak_read_ok) ==
    IF HasKey(cache, p) THEN cache[p]
    ELSE IF HasKey(files, p) /\ bak_read_ok THEN files[p]
    ELSE "placeholder"

\* Lines 318-326: the text to restore: the cache entry, else the .lean.bak file
\* when it exists and can be read. "" stands for None.
RestoreSource(cache, files, p, bak_read_ok) ==
    IF HasKey(cache, p) THEN cache[p]
    ELSE IF HasKey(files, p) /\ bak_read_ok THEN files[p]
    ELSE ""

\* Lines 314-332: one turn of the restore loop; a write that raises is ignored.
RestoreStep ==
    /\ pc = "restore"
    /\ idx <= Len(final_failed)
    /\ \E bak_read_ok \in BOOLEAN, write_ok \in BOOLEAN :
        LET stem == final_failed[idx]
            src == RestoreSource(original_cache, bak, stem, bak_read_ok)
        IN /\ faults + Cost(bak_read_ok) + Cost(write_ok) <= MaxFaults
           /\ faults' = faults + Cost(bak_read_ok) + Cost(write_ok)
           /\ IF stem \in lean_files /\ src # "" /\ write_ok
              THEN /\ content' = [content EXCEPT ![stem] = src]
                   /\ restored' = Append(restored, stem)
              ELSE UNCHANGED <<content, restored>>
    /\ idx' = idx + 1
    /\ UNCHANGED <<argVars, pc, exit_status, buildVars, summary1, to_fix,
                   original_cache, bak, regen_done, regen_failed, wrote,
                   successful, failed, summary2, final_failed, asideVars>>

\* ExitStatus with a slip: the test is inverted.
ExitStatusInverted(failed_list) == IF failed_list = <<>> THEN 1 ELSE 0

\* Line 357: return 0 if not final_failed else 1
ExitStatus(failed_list) == IF failed_list = <<>> THEN 0 ELSE 1

\* Lines 333-357: the report is written and main returns.
RecheckReturn ==
    /\ pc = "restore"
    /\ idx > Len(final_failed)
    /\ exit_status' = ExitStatus(final_failed)
    /\ pc' = "done"
    /\ UNCHANGED <<argVars, faults, buildVars, regenVars, secondVars, asideVars>>


\* ------------------------------------------ OpenRouterClient.chat_completion
\* The statuses urlopen raises HTTPError for.
HttpErrorCodes == {400, 404, 429, 500, 503}

\* What one request ends in: a reply that parses, an HTTPError, a URLError, or
\* another exception (a reply that is no JSON, a socket timeout while reading).
Responses ==
    {[kind |-> "ok", code |-> 200], [kind |-> "urlerror", code |-> 0],
     [kind |-> "other", code |-> 0]}
        \cup {[kind |-> "http", code |-> c] : c \in HttpErrorCodes}

\* Seconds the Retry-After / X-RateLimit-Reset headers ask for (0 without them).
RetryAfterValues == {0, 30}

\* Retryable with a slip: every HTTP status is retried.
RetryableAlways(code) == TRUE

\* Line 304: e.code == 429 or (500 <= e.code < 600)
Retryable(code) == code = 429 \/ (500 <= code /\ code < 600)

\* Line 325: sleep_for = max(retry_after, delay)
SleepFor(retry_after, d) == Max(retry_after, d)

\* Lines 331 and 342: delay = min(delay * 2, 20.0)
NextDelay(d) == Min(d * 2, 20)

\* MoreAttempts with a slip: the loop ends after three requests.
MoreAttemptsThree(n) == n < 3

\* MoreAttempts with a slip: the loop has no bound.
MoreAttemptsForever(n) == TRUE

\* Whether the loop of line 296 has another turn after n requests.
MoreAttempts(n) == n < Attempts

\* Lines 296-346: one turn of the loop: a request is sent and its outcome
\* handled; after the last turn the loop ends and last_err is raised.
ChatRequest(resp, retry_after) ==
    /\ chat_pc = "loop"
    /\ MoreAttempts(Len(sent))
    /\ sent' = Append(sent, resp)
    /\ IF resp.kind = "ok"
       THEN /\ chat_pc' = "returned"
            /\ UNCHANGED <<delay, last_err, slept>>
       ELSE IF resp.kind = "http" /\ Retryable(resp.code)
       THEN /\ last_err' = resp
            /\ slept' = Append(slept, SleepFor(retry_after, delay))
            /\ delay' = NextDelay(delay)
            /\ chat_pc' = IF MoreAttempts(Len(sent) + 1) THEN "loop"
                          ELSE "raised_last_err"
       ELSE IF resp.kind = "http"
       THEN /\ chat_pc' = "raised_http_error"
            /\ UNCHANGED <<delay, last_err, slept>>
       ELSE IF resp.kind = "urlerror"
       THEN /\ last_err' = resp
            /\ slept' = Append(slept, delay)
            /\ delay' = NextDelay(delay)
            /\ chat_pc' = IF MoreAttempts(Len(sent) + 1) THEN "loop"
                          ELSE "raised_last_err"
       ELSE /\ chat_pc' = "raised_other"
            /\ UNCHANGED <<delay, last_err, slept>>
    /\ UNCHANGED <<argVars, pc, exit_status, faults, buildVars, regenVars,
                   secondVars>>

\* ------------------------------------------------------ the specifications
NoError == [kind |-> "none", code |-> 0]

\* No call of chat_completion is under way.
ChatIdle ==
    /\ chat_pc = "idle"
    /\ sent = <<>>
    /\ delay = 1
    /\ last_err = NoError
    /\ slept = <<>>

\* No call of regenerate_file is being followed step by step.
NoResult == [ok |-> FALSE, err |-> "", written |-> FALSE, text |-> "", calls |-> 0]

\* No log file has been written and build_lean_file has not been called.
NoBuild == [block_id |-> 0]

LogsEmpty ==
    /\ logs = [n \in LogNames |-> <<>>]
    /\ built = NoBuild

\* The first run of the pipeline has not ended.
NoRun == [pc |-> "none"]

\* The /build-start requests the server is sent.
MaxRequests == 2

Requests == 1..MaxRequests

\* model_config_server.py 33-41: BUILD_STATUS as the module creates it and as
\* _reset_build_status (44-54) leaves it.
IdleStatus ==
    [state |-> "idle", total |-> 0, completed |-> 0, successes |-> 0,
     failures |-> <<>>]

\* No request has come, no build thread was started.
ServerIdle ==
    /\ BUILD_STATUS = IdleStatus
    /\ build_threads = [r \in Requests |-> [pc |-> "none", left |-> 0]]
    /\ handlers = [r \in Requests |-> [pc |-> "none", response |-> 0, busy |-> FALSE]]

OthersIdle ==
    /\ run = 1
    /\ first_run = NoRun
    /\ ServerIdle

StepIdle ==
    /\ regen_pc = "idle"
    /\ regen_attempt = 0
    /\ chat_calls = <<>>
    /\ requests = 0
    /\ fatal_at = 0
    /\ run500 = 0
    /\ max500 = 0
    /\ all_retryable = TRUE
    /\ regen_result = NoResult
    /\ built_text = ""

\* The state before main() has done anything.
PipelineStart ==
    /\ pc = "start"
    /\ exit_status = -1
    /\ faults = 0
    /\ call = 0
    /\ pending = {}
    /\ results = {}
    /\ successful_builds = <<>>
    /\ failed_builds = <<>>
    /\ retry_results = EmptyMap
    /\ summary = NoSummary
    /\ compiled = [k \in CompiledKeys |-> <<>>]
    /\ events = <<>>
    /\ prepared = <<>>
    /\ summary1 = PassKeys(NoSummary)
    /\ to_fix = <<>>
    /\ original_cache = EmptyMap
    /\ bak = EmptyMap
    /\ idx = 1
    /\ content = [a \in Artifacts |-> Original]
    /\ regen_done = {}
    /\ regen_failed = <<>>
    /\ wrote = {}
    /\ successful = <<>>
    /\ failed = <<>>
    /\ summary2 = PassKeys(NoSummary)
    /\ final_failed = <<>>
    /\ restored = <<>>

Init ==
    /\ entry \in {"checker", "recheck", "server"}
    /\ scope \in (IF entry = "recheck" THEN {"all", "failed"} ELSE {"failed"})
    /\ workers \in (IF entry = "recheck" THEN WorkerCounts ELSE {DefaultWorkers})
    /\ lean_files \in {1..n : n \in 0..NumArtifacts}
    /\ cb_raises \in (IF entry = "server" THEN BOOLEAN ELSE {FALSE})
    /\ PipelineStart
    /\ ChatIdle
    /\ StepIdle
    /\ LogsEmpty
    /\ OthersIdle

Next ==
    \/ CheckerMain
    \/ RecheckMain
    \/ ServerWorker
    \/ ServerReturn
    \/ \E a \in Artifacts, o \in CompileOutcomes : CompleteInitial(a, o)
    \/ SubmitRetries
    \/ \E a \in Artifacts, o \in CompileOutcomes : CompleteRetry(a, o)
    \/ Summarize
    \/ CheckerReturn
    \/ AfterFirstPass
    \/ BackupStep
    \/ \E p \in Artifacts : Regenerate(p)
    \/ StartSecondPass
    \/ \E p \in Artifacts, o \in CompileOutcomes : CompletePostregen(p, o)
    \/ AfterPostregen
    \/ AfterSecondPass
    \/ RestoreStep
    \/ RecheckReturn

Spec == Init /\ [][Next]_vars

\* ------------------------- the pipeline with a compiler that is a function
\* The verdicts build_lean_file has given on artifact a in build pass c.
Verdicts(c, a) ==
    UNION {Range(compiled[<<c, a, att>>]) : att \in AttemptLabels}

\* The verdict depends on the text of the artifact only: the attempts of one
\* pass agree, and those of both passes agree on a file that was not rewritten
\* in between.
ContentOracle ==
    \A a \in Artifacts :
        /\ Cardinality(Verdicts(1, a)) <= 1
        /\ Cardinality(Verdicts(2, a)) <= 1
        /\ a \notin wrote => Cardinality(Verdicts(1, a) \cup Verdicts(2, a)) <= 1

NextScope == Next /\ ContentOracle'

SpecScope == Init /\ [][NextScope]_vars

\* ------------------------------------- the recheck agent run twice in a row
\* The process of the first run has ended and the agent is started again with
\* the same arguments: the files are as the first run left them, everything
\* else starts afresh (the logs and backups directories are named by the time).
RunAgain ==
    /\ run = 1
    /\ entry = "recheck"
    /\ pc = "nothing_to_regenerate"
    /\ run' = 2
    /\ first_run' = [pc |-> pc,
                     exit_status |-> exit_status,
                     summary1 |-> summary1,
                     compiled |-> compiled,
                     regen_done |-> regen_done,
                     content |-> content]
    /\ pc' = "start"
    /\ exit_status' = -1
    /\ call' = 0
    /\ pending' = {}
    /\ results' = {}
    /\ successful_builds' = <<>>
    /\ failed_builds' = <<>>
    /\ retry_results' = EmptyMap
    /\ summary' = NoSummary
    /\ compiled' = [k \in CompiledKeys |-> <<>>]
    /\ events' = <<>>
    /\ prepared' = <<>>
    /\ summary1' = PassKeys(NoSummary)
    /\ to_fix' = <<>>
    /\ original_cache' = EmptyMap
    /\ bak' = EmptyMap
    /\ idx' = 1
    /\ regen_done' = {}
    /\ regen_failed' = <<>>
    /\ wrote' = {}
    /\ successful' = <<>>
    /\ failed' = <<>>
    /\ summary2' = PassKeys(NoSummary)
    /\ final_failed' = <<>>
    /\ restored' = <<>>
    /\ UNCHANGED <<argVars, faults, content, chatVars, stepVars, logVars, serverVars>>

\* The compiler gives the same verdict on the same text: a file that compiled
\* at its initial attempt of the first run and has the text it had then
\* compiles at its initial attempt of the second run.
SameCompiler ==
    run = 2 =>
        \A a \in lean_files :
            (/\ first_run.compiled[<<1, a, "initial">>] = <<TRUE>>
             /\ first_run.content[a] = content[a]
             /\ compiled[<<1, a, "initial">>] # <<>>)
                => compiled[<<1, a, "initial">>] = <<TRUE>>

InitTwice == Init

NextTwice ==
    \/ Next /\ SameCompiler'
    \/ RunAgain

SpecTwice == InitTwice /\ [][NextTwice]_vars

\* One call of chat_completion, as regenerate_file makes it.
InitChat ==
    /\ entry = "recheck"
    /\ scope = "failed"
    /\ workers = DefaultWorkers
    /\ lean_files = Artifacts
    /\ cb_raises = FALSE
    /\ PipelineStart
    /\ chat_pc = "loop"
    /\ sent = <<>>
    /\ delay = 1
    /\ last_err = NoError
    /\ slept = <<>>
    /\ StepIdle
    /\ LogsEmpty
    /\ OthersIdle

NextChat ==
    \E resp \in Responses, retry_after \in RetryAfterValues :
        ChatRequest(resp, retry_after) /\ UNCHANGED <<stepVars, logVars, otherVars>>

SpecChat == InitChat /\ [][NextChat]_vars

\* ------------------------------------------- build_lean_file, call by call
\* One call of build_lean_file with what it returns and what it leaves in
\* output_dir.
RECURSIVE LogWrites(_, _)
LogWrites(lg, N) ==
    IF N = {} THEN 0
    ELSE LET n == CHOOSE x \in N : TRUE
         IN Len(lg[n]) + LogWrites(lg, N \ {n})

BuildOnce(a, log_suffix, o) ==
    /\ LogWrites(logs, LogNames) < MaxLogWrites
    /\ logs' = WriteLog(logs, a, log_suffix, o)
    /\ built' = [block_id |-> a,
                 log_suffix |-> log_suffix,
                 outcome |-> o,
                 result |-> BuildLeanFile(a, log_suffix, o),
                 logged |-> (logs' # logs)]
    /\ UNCHANGED <<argVars, pc, exit_status, faults, buildVars, regenVars,
                   secondVars, chatVars, stepVars, otherVars>>

InitBuild ==
    /\ entry = "checker"
    /\ scope = "failed"
    /\ workers = DefaultWorkers
    /\ lean_files = Artifacts
    /\ cb_raises = FALSE
    /\ PipelineStart
    /\ ChatIdle
    /\ StepIdle
    /\ LogsEmpty
    /\ OthersIdle

NextBuild ==
    \E a \in Artifacts, log_suffix \in LogSuffixes, o \in CompileOutcomes :
        BuildOnce(a, log_suffix, o)

SpecBuild == InitBuild /\ [][NextBuild]_vars

\* --------------------------- one call of regenerate_file, request by request
\* The artifact main passes to regenerate_file.
Target == 1

\* Lines 243-249 (and 237-241): main appends the error of a failed regeneration.
RegenFailures(failures, p, r) ==
    IF r.ok THEN failures ELSE Append(failures, <<p, r.err>>)

\* Lines 70-82: the file is read; a read that raises ends the call, else the
\* loop starts and chat_completion is entered for the first time.
RegenBegin ==
    /\ regen_pc = "start"
    /\ \E read_ok \in BOOLEAN :
        /\ faults + Cost(read_ok) <= MaxFaults
        /\ faults' = faults + Cost(read_ok)
        /\ IF read_ok
           THEN /\ regen_pc' = "chat"
                /\ chat_pc' = "loop"
                /\ UNCHANGED <<regen_result, regen_failed, regen_done>>
           ELSE LET r == RegenerateFile(FALSE, chat_calls, Retries, "none", TRUE, TRUE)
                IN /\ regen_result' = r
                   /\ regen_failed' = RegenFailures(regen_failed, Target, r)
                   /\ regen_done' = regen_done \cup {Target}
                   /\ regen_pc' = "returned"
                   /\ UNCHANGED chat_pc
    /\ UNCHANGED <<argVars, pc, exit_status, buildVars, summary1, to_fix,
                   original_cache, bak, idx, content, wrote, secondVars, sent,
                   delay, last_err, slept, regen_attempt, chat_calls, requests,
                   fatal_at, run500, max500, all_retryable, built_text, logVars,
                   otherVars>>

\* One request of the chat_completion call under way, with what it adds to the
\* history of the artifact's requests.
RegenRequest(resp) ==
    /\ regen_pc = "chat"
    /\ ChatRequest(resp, 0)
    /\ requests' = requests + 1
    /\ fatal_at' = IF fatal_at = 0 /\ resp.kind = "http" /\ ~Retryable(resp.code)
                   THEN requests + 1 ELSE fatal_at
    /\ run500' = IF resp.kind = "http" /\ resp.code = 500 THEN run500 + 1 ELSE 0
    /\ max500' = Max(max500, run500')
    /\ all_retryable' =
           (all_retryable /\ (resp.kind = "urlerror"
                                \/ (resp.kind = "http" /\ Retryable(resp.code))))
    /\ UNCHANGED <<regen_pc, regen_attempt, chat_calls, regen_result, built_text,
                   logVars,
                   otherVars>>

\* What the body of a 200 answer parses to: a reply with content, a reply
\* without, or JSON of another shape.
ReplyShapes == {"content", "empty", "malformed"}

\* Lines 82-94: chat_completion has returned or raised. With content the loop
\* breaks; else attempt is incremented and the loop goes on while
\* attempt <= retries. Lines 89-90 stand outside the try: on a reply of another
\* shape data.get or choice.get raises, regenerate_file is left without a
\* result, and the pool of main records the exception (lines 232-235).
RegenChatEnd ==
    /\ regen_pc = "chat"
    /\ chat_pc \in {"returned", "raised_last_err", "raised_http_error",
                   "raised_other"}
    /\ \E reply \in ReplyShapes :
        LET out == IF chat_pc # "returned" THEN "raise" ELSE reply
        IN /\ (chat_pc # "returned" => reply = "empty")
           /\ chat_calls' = Append(chat_calls, out)
           /\ regen_attempt' = IF out \in {"content", "malformed"} THEN regen_attempt
                             ELSE regen_attempt + 1
           /\ IF out = "malformed"
              THEN LET r == RegenerateFile(TRUE, chat_calls', Retries, "none", TRUE, TRUE)
                   IN /\ chat_pc' = "idle"
                      /\ regen_pc' = "raised"
                      /\ regen_failed' = RegenFailures(regen_failed, Target, r)
                      /\ regen_done' = regen_done \cup {Target}
              ELSE /\ IF out # "content" /\ regen_attempt + 1 <= Retries
                      THEN /\ chat_pc' = "loop"
                           /\ UNCHANGED regen_pc
                      ELSE /\ chat_pc' = "idle"
                           /\ regen_pc' = "write"
                   /\ UNCHANGED <<regen_failed, regen_done>>
    /\ sent' = <<>>
    /\ delay' = 1
    /\ last_err' = NoError
    /\ slept' = <<>>
    /\ UNCHANGED <<argVars, pc, exit_status, faults, buildVars, summary1, to_fix,
                   original_cache, bak, idx, content, wrote,
                   secondVars, requests, fatal_at, run500, max500, all_retryable,
                   regen_result, built_text, logVars,
                   otherVars>>

\* Lines 96-127: the loop is over; the content of the service or a fallback is
\* written, regenerate_file returns and main records the result.
RegenWrite ==
    /\ regen_pc = "write"
    /\ \E fb \in FallbackOutcomes, write_ok \in BOOLEAN, write2_ok \in BOOLEAN :
        LET r == RegenerateFile(TRUE, chat_calls, Retries, fb, write_ok, write2_ok)
            cost == Cost(write_ok) + Cost(write2_ok)
        IN /\ faults + cost <= MaxFaults
           /\ faults' = faults + cost
           /\ content' = IF r.written THEN [content EXCEPT ![Target] = r.text]
                         ELSE content
           /\ wrote' = IF r.written THEN wrote \cup {Target} ELSE wrote
           /\ regen_failed' = RegenFailures(regen_failed, Target, r)
           /\ regen_result' = r
    /\ regen_done' = regen_done \cup {Target}
    /\ regen_pc' = "returned"
    /\ UNCHANGED <<argVars, pc, exit_status, buildVars, summary1, to_fix,
                   original_cache, bak, idx, secondVars, chatVars, regen_attempt,
                   chat_calls, requests, fatal_at, run500, max500, all_retryable,
                   built_text, logVars,
                   otherVars>>

\* Lines 280-296: the post-regeneration compile of the artifact reads the file
\* as regenerate_file has left it.
RegenPostregen ==
    /\ regen_pc = "returned"
    /\ built_text' = content[Target]
    /\ regen_pc' = "compiled"
    /\ UNCHANGED <<argVars, pc, exit_status, faults, buildVars, regenVars,
                   secondVars, chatVars, regen_attempt, chat_calls, requests,
                   fatal_at, run500, max500, all_retryable, regen_result, logVars,
                   otherVars>>

InitRegen ==
    /\ entry = "recheck"
    /\ scope = "failed"
    /\ workers = DefaultWorkers
    /\ lean_files = Artifacts
    /\ cb_raises = FALSE
    /\ PipelineStart
    /\ ChatIdle
    /\ regen_pc = "start"
    /\ regen_attempt = 0
    /\ chat_calls = <<>>
    /\ requests = 0
    /\ fatal_at = 0
    /\ run500 = 0
    /\ max500 = 0
    /\ all_retryable = TRUE
    /\ regen_result = NoResult
    /\ built_text = ""
    /\ LogsEmpty
    /\ OthersIdle

NextRegen ==
    \/ RegenBegin
    \/ \E resp \in Responses : RegenRequest(resp)
    \/ RegenChatEnd
    \/ RegenWrite
    \/ RegenPostregen

SpecRegen == InitRegen /\ [][NextRegen]_vars

\* ------------------------------------ model_config_server: POST /build-start
\* A build thread is in progress from Thread.start() until worker() returns.
InProgress(t) == build_threads[t].pc \in {"started", "reset", "building"}

BuildsInProgress == {t \in Requests : InProgress(t)}

\* Lines 340-345: with _build_lock: if BUILD_STATUS.get('state') == 'running'
BuildRunning == BUILD_STATUS.state = "running"

pipelineVars == <<argVars, pc, exit_status, faults, buildVars, regenVars, secondVars,
                  chatVars, stepVars, logVars, rerunVars>>

\* Lines 321-345 of do_POST: the request is parsed; a missing directory is
\* answered 400; under the lock a running build is answered 409; the lock is
\* released before the build is started.
BuildStartCheck(r, dir_exists) ==
    /\ handlers[r].pc = "none"
    /\ handlers' =
          [handlers EXCEPT ![r] =
              IF ~dir_exists
              THEN [pc |-> "answered", response |-> 400, busy |-> BuildsInProgress # {}]
              ELSE IF BuildRunning
              THEN [pc |-> "answered", response |-> 409, busy |-> BuildsInProgress # {}]
              ELSE [pc |-> "passed", response |-> 0, busy |-> BuildsInProgress # {}]]
    /\ UNCHANGED <<BUILD_STATUS, build_threads, pipelineVars>>

\* Lines 346-351 and 106-108: _start_build starts the thread, the handler
\* answers 200.
StartBuild(r) ==
    /\ handlers[r].pc = "passed"
    /\ build_threads' = [build_threads EXCEPT ![r] = [pc |-> "started", left |-> 0]]
    /\ handlers' = [handlers EXCEPT ![r].pc = "answered", ![r].response = 200]
    /\ UNCHANGED <<BUILD_STATUS, pipelineVars>>

\* Lines 96-98: worker() calls _reset_build_status().
WorkerReset(t) ==
    /\ build_threads[t].pc = "started"
    /\ BUILD_STATUS' = IdleStatus
    /\ build_threads' = [build_threads EXCEPT ![t].pc = "reset"]
    /\ UNCHANGED <<handlers, pipelineVars>>

\* Lines 68-76: the init event, after prepare_project and the glob.
ProgressInit(t) ==
    /\ build_threads[t].pc = "reset"
    /\ BUILD_STATUS' = [state |-> "running", total |-> Cardinality(lean_files),
                        completed |-> 0, successes |-> 0, failures |-> <<>>]
    /\ build_threads' = [build_threads EXCEPT ![t] =
                            [pc |-> "building", left |-> Cardinality(lean_files)]]
    /\ UNCHANGED <<handlers, pipelineVars>>

\* Lines 78-88: a file event.
ProgressFile(t, success) ==
    /\ build_threads[t].pc = "building"
    /\ build_threads[t].left > 0
    /\ BUILD_STATUS' =
          [BUILD_STATUS EXCEPT
              !.completed = @ + 1,
              !.successes = IF success THEN @ + 1 ELSE @,
              !.failures = IF success THEN @ ELSE Append(@, build_threads[t].left)]
    /\ build_threads' = [build_threads EXCEPT ![t].left = @ - 1]
    /\ UNCHANGED <<handlers, pipelineVars>>

\* Lines 90-93 and 100-104: the build check ends; its done event sets the state
\* 'done', an exception (the summary could not be saved) sets it 'error'.
WorkerEnd(t, saved) ==
    /\ build_threads[t].pc = "building"
    /\ build_threads[t].left = 0
    /\ BUILD_STATUS' = [BUILD_STATUS EXCEPT !.state = IF saved THEN "done" ELSE "error"]
    /\ build_threads' = [build_threads EXCEPT ![t].pc = "ended"]
    /\ UNCHANGED <<handlers, pipelineVars>>

InitServer ==
    /\ entry = "server"
    /\ scope = "failed"
    /\ workers = DefaultWorkers
    /\ lean_files = Artifacts
    /\ cb_raises = FALSE
    /\ PipelineStart
    /\ ChatIdle
    /\ StepIdle
    /\ LogsEmpty
    /\ OthersIdle

NextServer ==
    \/ \E r \in Requests, dir_exists \in BOOLEAN : BuildStartCheck(r, dir_exists)
    \/ \E r \in Requests : StartBuild(r)
    \/ \E t \in Requests : WorkerReset(t)
    \/ \E t \in Requests : ProgressInit(t)
    \/ \E t \in Requests, success \in BOOLEAN : ProgressFile(t, success)
    \/ \E t \in Requests, saved \in BOOLEAN : WorkerEnd(t, saved)

SpecServer == InitServer /\ [][NextServer]_vars


\* =============================================================== the claims
Terminal ==
    {"usage_error", "exception", "nothing_to_regenerate", "checker_done", "done"}

\* What build_lean_file returned for artifact a in attempt att of call c.
Outcomes(c, a, att) == compiled[<<c, a, att>>]

\* The ids whose initial attempt of call c failed / succeeded.
InitialFailed(c) ==
    {a \in Artifacts : Outcomes(c, a, "initial") # <<>>
                          /\ ~Outcomes(c, a, "initial")[1]}

InitialSucceeded(c) ==
    {a \in Artifacts : Outcomes(c, a, "initial") # <<>>
                          /\ Outcomes(c, a, "initial")[1]}

\* The ids whose retry attempt of call c succeeded.
RetrySucceeded(c) ==
    {a \in Artifacts : Outcomes(c, a, "retry") # <<>> /\ Outcomes(c, a, "retry")[1]}

NoDuplicates(s) == Cardinality(Range(s)) = Len(s)

\* C1: in every summary run_parallel_build_check returns, recovered_blocks and
\* still_failed_blocks are disjoint, name no id twice, together are exactly the
\* ids whose initial attempt failed, and recovered_blocks holds exactly the ids
\* whose retry succeeded.
C1_RetryPartition ==
    pc = "returned" =>
        LET rec == Range(summary.recovered_blocks)
            still == Range(summary.still_failed_blocks)
        IN /\ rec \cap still = {}
           /\ NoDuplicates(summary.recovered_blocks)
           /\ NoDuplicates(summary.still_failed_blocks)
           /\ rec \cup still = InitialFailed(call)
           /\ rec = RetrySucceeded(call)

\* A summary in which one id was recovered and another still fails.
C1_Witness ==
    /\ pc = "returned"
    /\ summary.recovered_blocks # <<>>
    /\ summary.still_failed_blocks # <<>>

\* C2: in every summary returned, successful_blocks is the ids that succeeded
\* the initial attempt together with recovered_blocks, failed_blocks is
\* still_failed_blocks, every discovered file is in exactly one of the two lists,
\* once, and successful_builds + failed_builds = total_files.
C2_ClassifiedOnce ==
    pc = "returned" =>
        /\ Range(summary.successful_blocks)
               = InitialSucceeded(call) \cup Range(summary.recovered_blocks)
        /\ summary.failed_blocks = summary.still_failed_blocks
        /\ Range(summary.successful_blocks) \cap Range(summary.failed_blocks) = {}
        /\ Range(summary.successful_blocks) \cup Range(summary.failed_blocks)
               = lean_files
        /\ NoDuplicates(summary.successful_blocks)
        /\ NoDuplicates(summary.failed_blocks)
        /\ summary.successful_builds = Len(summary.successful_blocks)
        /\ summary.failed_builds = Len(summary.failed_blocks)
        /\ summary.total_files = Cardinality(lean_files)
        /\ summary.successful_builds + summary.failed_builds = summary.total_files

\* A summary after a retry pass that lists an id that passed at once and an id
\* that failed both attempts.
C2_Witness ==
    /\ pc = "returned"
    /\ InitialSucceeded(call) # {}
    /\ summary.successful_builds > 0
    /\ summary.failed_builds > 0


\* The files regenerate_file was invoked for and that the second pass lists as failed.
RegeneratedAndFailed == regen_done \cap Range(final_failed)

\* C3: when the recheck agent ends, every regenerated artifact that the second
\* pass lists as failed has the content it had before the regeneration, whatever
\* the reads and writes of the backup, the regeneration and the restore ended in.
C3_RestorationLaw ==
    pc = "done" => \A a \in RegeneratedAndFailed : content[a] = Original

\* C4: an artifact regenerate_file has overwritten has a backup, in
\* original_cache or as a .lean.bak file.
C4_BackupBeforeWrite ==
    \A a \in wrote : HasKey(original_cache, a) \/ HasKey(bak, a)

\* The ids that failed the initial and the retry attempt of the first build check.
BothFailedFirst ==
    {a \in Artifacts : Outcomes(1, a, "initial") = <<FALSE>>
                          /\ Outcomes(1, a, "retry") = <<FALSE>>}

\* The regeneration phase is over: the second pass has started.
RegenerationOver == call = 2 \/ pc \in {"postregen", "restore", "done"}

\* Something of the recovery path has been done: a backup, a regeneration or a
\* compile of the second pass.
RecoveryTouched ==
    \/ pc \in {"backup", "regen", "postregen", "restore", "done"}
    \/ call = 2
    \/ original_cache # EmptyMap
    \/ bak # EmptyMap
    \/ regen_done # {}
    \/ \E a \in Artifacts, att \in AttemptLabels : Outcomes(2, a, att) # <<>>

\* C5: regenerate_file is invoked only for artifacts that failed the initial and
\* the retry attempt of the first build check, and once the regeneration phase
\* is over it has been invoked for every one of them; when the first build check
\* leaves no failed id the run ends with status 0 and no backup, regeneration or
\* second pass has been made.
C5_RegenerateExactlyStillFailed ==
    /\ regen_done \subseteq BothFailedFirst
    /\ RegenerationOver => regen_done = BothFailedFirst
    /\ RecoveryTouched => BothFailedFirst # {}
    /\ pc = "nothing_to_regenerate" => BothFailedFirst = {} /\ ~RecoveryTouched
    /\ (pc = "returned" /\ call = 1) => (Range(summary.failed_blocks) = BothFailedFirst)

\* The run has ended, one artifact was regenerated and another, recovered by the
\* retry of the first pass, was not.
C5_Witness ==
    /\ pc = "done"
    /\ regen_done # {}
    /\ \E a \in lean_files \ regen_done : Outcomes(1, a, "retry") = <<TRUE>>

\* C6: within one call of run_parallel_build_check every file is built at most
\* once per attempt label and is retried only after its initial attempt failed;
\* when the call returns every file has been built exactly once as initial and,
\* exactly when that failed, once as retry.
C6_SingleRetry ==
    \A c \in {1, 2}, a \in Artifacts :
        /\ Len(Outcomes(c, a, "initial")) <= 1
        /\ Len(Outcomes(c, a, "retry")) <= 1
        /\ Outcomes(c, a, "retry") # <<>> => Outcomes(c, a, "initial") = <<FALSE>>
        /\ a \notin lean_files =>
               Outcomes(c, a, "initial") = <<>> /\ Outcomes(c, a, "retry") = <<>>
        /\ (pc = "returned" /\ call = c /\ a \in lean_files) =>
               /\ Len(Outcomes(c, a, "initial")) = 1
               /\ Len(Outcomes(c, a, "retry"))
                      = (IF Outcomes(c, a, "initial") = <<FALSE>> THEN 1 ELSE 0)

\* A call has returned in which one file was built once and another twice.
C6_Witness ==
    /\ pc = "returned"
    /\ \E a \in lean_files : Outcomes(call, a, "retry") # <<>>
    /\ \E a \in lean_files : Outcomes(call, a, "initial") = <<TRUE>>

\* The list of failed ids the run ends with.
FinalFailedList ==
    IF entry = "checker" THEN summary.failed_blocks ELSE final_failed

C8_RestoredExactlyFailed ==
    pc = "done" =>
        /\ Range(restored) = RegeneratedAndFailed
        /\ Range(restored) \cap Range(summary2.successful_blocks) = {}

\* The files regenerate_file reported an error for.
RegenErrorFiles == {regen_failed[i][1] : i \in 1..Len(regen_failed)}

RegeneratedTexts == {"llm", "skeleton", "minimal"}

\* The files whose regenerate_file raised in a task of the pool.
RegenRaisedFiles ==
    {regen_failed[i][1] : i \in {j \in 1..Len(regen_failed) :
                                    regen_failed[j][2] = "exception"}}

RetryWorthy(resp) ==
    \/ resp.kind = "urlerror"
    \/ resp.kind = "http" /\ (resp.code = 429 \/ resp.code \in 500..599)

\* C10: chat_completion sends at most Attempts (5) requests; every request that
\* was followed by another one was answered with 429, 5xx or a URLError; the
\* call is still looping only while fewer than 5 requests were sent, and after a
\* fifth retryable answer it raises the last error.
C10_BoundedRetries ==
    /\ Len(sent) <= Attempts
    /\ \A i \in 1..(Len(sent) - 1) : RetryWorthy(sent[i])
    /\ chat_pc = "loop" =>
           Len(sent) < Attempts /\ \A i \in 1..Len(sent) : RetryWorthy(sent[i])
    /\ (Len(sent) = Attempts /\ RetryWorthy(sent[Attempts])) =>
           chat_pc = "raised_last_err" /\ last_err = sent[Attempts]
    /\ chat_pc = "raised_last_err" => Len(sent) = Attempts
    /\ (sent # <<>> /\ ~RetryWorthy(sent[Len(sent)])) => chat_pc # "loop"

\* The service answered five requests with a retryable status and the call raised.
C10_Witness ==
    /\ chat_pc = "raised_last_err"
    /\ Len(sent) = Attempts
    /\ \A i \in 1..Len(sent) : sent[i].kind = "http"

\* regenerate_file has returned to main.
RegenReturned == regen_pc \in {"returned", "compiled"}

\* The requests regenerate_file can send for one artifact: Attempts per call of
\* chat_completion, Retries + 1 calls.
RequestBudget == Attempts * (Retries + 1)

\* The last answer of the call of chat_completion under way is an HTTP status
\* that is neither 429 nor 5xx.
LastIsTerminal ==
    /\ sent # <<>>
    /\ sent[Len(sent)].kind = "http"
    /\ ~RetryWorthy(sent[Len(sent)])

\* C11 as stated: once a non-retryable HTTP status has come back for an
\* artifact no further request is sent for it, and regenerate_file returns an
\* error that main records.
C11_FailsImmediately ==
    /\ fatal_at # 0 => requests = fatal_at
    /\ (RegenReturned /\ fatal_at # 0) =>
           ~regen_result.ok /\ Target \in RegenErrorFiles

\* C11 amended: a non-retryable HTTP status ends the call of chat_completion at
\* once with an exception and no further request of that call; regenerate_file
\* catches it and calls chat_completion again while attempt <= retries, so at
\* most Attempts * Retries further requests follow; the error is not returned
\* to main: regenerate_file reports success exactly when it has written the
\* file, and an error only when a write raised.
C11_CallFailsImmediately ==
    /\ LastIsTerminal => chat_pc = "raised_http_error"
    /\ chat_pc = "raised_http_error" => LastIsTerminal /\ fatal_at # 0
    /\ fatal_at # 0 => requests - fatal_at <= Attempts * Retries
    /\ (RegenReturned /\ fatal_at # 0) =>
           /\ regen_result.ok <=> regen_result.written
           /\ regen_result.ok => regen_result.err = "" /\ Target \notin RegenErrorFiles
           /\ ~regen_result.ok => faults > 0 /\ Target \in RegenErrorFiles

\* The first request was answered with a non-retryable status, more requests
\* followed, and regenerate_file returned success with the fallback skeleton.
C11_Witness ==
    /\ RegenReturned
    /\ fatal_at = 1
    /\ requests > 1
    /\ regen_result.ok
    /\ content[Target] = "skeleton"

\* The texts of the two local fallbacks.
FallbackTexts == {"skeleton", "minimal"}

\* C12 as stated: after three HTTP 500 answers in a row for an artifact the
\* fallback skeleton is written and is what the post-regeneration pass compiles.
C12_GivesUpAfterThree ==
    (regen_pc = "compiled" /\ max500 >= 3) =>
        /\ content[Target] \in FallbackTexts
        /\ built_text = content[Target]
        /\ built_text # Original

\* Every request sent so far for the artifact was answered with HTTP 500.
AllAnswered500 == requests > 0 /\ max500 = requests

\* C12 amended: when every request for an artifact is answered with HTTP 500
\* the call path gives up only after Attempts requests in each of the
\* Retries + 1 calls of chat_completion; it then writes the fallback skeleton or
\* the trivial skeleton, and unless that write raises the post-regeneration
\* compile reads that text and not the original content.
C12_FallbackAfterAllFail ==
    /\ (AllAnswered500 /\ regen_pc \in {"write", "returned", "compiled"}) =>
           requests = RequestBudget
    /\ (AllAnswered500 /\ regen_pc = "compiled") =>
           /\ regen_result.written =>
                  /\ content[Target] \in FallbackTexts
                  /\ built_text = content[Target]
                  /\ built_text # Original
           /\ ~regen_result.written =>
                  faults > 0 /\ ~regen_result.ok /\ built_text = Original

\* Every request was answered with 500, the fallback skeleton was written and
\* the post-regeneration compile has read it.
C12_Witness ==
    /\ regen_pc = "compiled"
    /\ AllAnswered500
    /\ requests = RequestBudget
    /\ built_text = "skeleton"

\* C13: when every request for an artifact was answered with a retryable
\* status until no attempt is left, main records a regeneration error for it.
C13_ExhaustionSurfaced ==
    (RegenReturned /\ all_retryable /\ requests = RequestBudget) =>
        Target \in RegenErrorFiles

\* Attempt k has written its log file: build_lean_file reports success only
\* after the log of lines 88-96 is written.
WroteLog(k) == TRUE \in Range(compiled[k])

\* C14: no log file is written by two attempts on the same artifact. Stated for
\* the attempts that succeeded, which have written their log for certain: two
\* of them on one artifact have different log suffixes.
C14_LogsNeverOverwritten ==
    \A k1 \in CompiledKeys, k2 \in CompiledKeys :
        (k1 # k2 /\ k1[2] = k2[2] /\ WroteLog(k1) /\ WroteLog(k2)) =>
            LogSuffix(k1[3]) # LogSuffix(k2[3])

\* C15: every call of build_lean_file, whatever the subprocess ends in, writes
\* its log file and returns the path of that file.
C15_EveryAttemptLogged ==
    built # NoBuild =>
        /\ built.logged
        /\ built.result.log_file = <<built.block_id, built.log_suffix>>

\* The stderr texts build_lean_file makes up itself.
SyntheticStderr == {"Build timeout after 60 seconds", "Build error"}

\* C16: build_lean_file reports success exactly when the subprocess exited with
\* code 0; after a timeout or an error stdout is empty and stderr is synthetic.
C16_SuccessIffExitZero ==
    built # NoBuild =>
        /\ built.result.success <=> (built.outcome.returncode = 0)
        /\ built.outcome.kind \in {"timeout", "error"} =>
               /\ ~built.result.success
               /\ built.result.stdout = ""
               /\ built.result.stderr \in SyntheticStderr

\* The positions of the events of a phase, and of the file events of an artifact.
EventsOf(phase) == {i \in 1..Len(events) : events[i].phase = phase}
FileEventsOf(a) == {i \in EventsOf("file") : events[i].block_id = a}

\* One init event, the first of all, with the number of files found.
InitEventFirst ==
    /\ EventsOf("init") = {1}
    /\ events[1].total = Cardinality(lean_files)

\* One file event for each artifact whose initial compilation has completed,
\* with the outcome of that compilation, and none for the others.
FileEventPerArtifact ==
    \A a \in Artifacts :
        LET done == compiled[<<1, a, "initial">>]
        IN /\ Cardinality(FileEventsOf(a)) = Len(done)
           /\ \A i \in FileEventsOf(a) : events[i].success = done[1]

\* One done event, the last of all, with the summary the run returns, after
\* an event for every file.
DoneEventLast ==
    /\ EventsOf("done") = {Len(events)}
    /\ events[Len(events)].summary = summary
    /\ pending = {}
    /\ \A a \in lean_files : FileEventsOf(a) # {}

\* The build check run by the server has ended, with its summary or with an
\* exception.
ServerRunEnded == pc \in {"returned", "server_done", "server_error"}

C18_PreparedOnceBeforeWorkers ==
    /\ Len(prepared) <= 1
    /\ \A i \in 1..Len(prepared) : prepared[i].dispatched = 0
    /\ Dispatched > 0 => Len(prepared) = 1

\* The run has ended after its command line was accepted.
RunEnded ==
    pc \in {"done", "exception", "checker_done", "nothing_to_regenerate",
            "server_done", "server_error"}

\* Artifact a was compiled after the regenerations: by the failed-only pass or
\* by the second build check.
CompiledAfterRegen(a) ==
    \/ compiled[<<2, a, "postregen">>] # <<>>
    \/ compiled[<<2, a, "initial">>] # <<>>

\* C19: a run that has ended has compiled every file once, has retried every
\* file that failed, has called regenerate_file for every file that failed
\* again and compiled it afterwards; it has not ended in an exception unless a
\* write of its own files raised.
C19_NoFailureAbortsTheRun ==
    RunEnded =>
        /\ \A a \in lean_files : compiled[<<1, a, "initial">>] # <<>>
        /\ \A a \in lean_files :
               compiled[<<1, a, "initial">>] = <<FALSE>> =>
                   compiled[<<1, a, "retry">>] # <<>>
        /\ \A a \in lean_files :
               (entry = "recheck" /\ compiled[<<1, a, "retry">>] = <<FALSE>>) =>
                   \/ a \in regen_done /\ CompiledAfterRegen(a)
                   \/ pc = "exception" /\ faults > 0
        /\ pc = "exception" => faults > 0

\* The success_rate of summary sm, a fraction, is successful_builds /
\* total_files * 100, and 0 for no file.
RateOf(sm) ==
    /\ sm.success_rate[2] > 0
    /\ IF sm.total_files > 0
       THEN sm.success_rate[1] * sm.total_files =
                sm.successful_builds * 100 * sm.success_rate[2]
       ELSE sm.success_rate[1] = 0

\* C20: the success_rate of every summary, those of run_parallel_build_check
\* and that of the failed-only pass, is successful_builds / total_files * 100
\* when there are files and 0 when there is none.
C20_SuccessRate ==
    /\ pc = "returned" =>
           RateOf(summary) /\ summary.total_files = Cardinality(lean_files)
    /\ pc \in {"nothing_to_regenerate", "backup", "regen", "postregen"} =>
           RateOf(summary1)
    /\ pc \in {"restore", "done"} =>
           /\ RateOf(summary1)
           /\ RateOf(summary2)
           /\ scope = "failed" => summary2.total_files = Len(to_fix)

\* A failed-only pass over two files of which one compiles: the rate is 50.
C20_Witness ==
    /\ pc = "done"
    /\ scope = "failed"
    /\ summary2.total_files = 2
    /\ summary2.successful_builds = 1
    /\ summary1.successful_builds = 0

\* The orders a list without repetition could have been filled in.
Orders(s) == {t \in [1..Len(s) -> Range(s)] : Range(t) = Range(s)}

\* The four sets of a reconciliation.
SetsOf(rec) ==
    <<Range(rec.successful_builds), Range(rec.failed_builds),
      Range(rec.recovered_blocks), Range(rec.still_failed_blocks)>>

\* C21: the success, failure, recovered and still-failed sets of a build check
\* are fixed by the outcomes of the attempts: the summary returned has the sets
\* the outcomes give, and once the retries have completed the reconciliation
\* gives the same sets for every order the lists could have been filled in.
C21_OrderIndependent ==
    /\ pc = "returned" =>
           /\ Range(summary.successful_blocks) =
                  InitialSucceeded(call) \cup RetrySucceeded(call)
           /\ Range(summary.failed_blocks) =
                  InitialFailed(call) \ RetrySucceeded(call)
           /\ Range(summary.recovered_blocks) = RetrySucceeded(call)
           /\ Range(summary.still_failed_blocks) =
                  InitialFailed(call) \ RetrySucceeded(call)
    /\ (pc = "retry" /\ pending = {}) =>
           \A s \in Orders(successful_builds), f \in Orders(failed_builds) :
               SetsOf(Reconcile(s, f, retry_results)) =
                   SetsOf(Reconcile(successful_builds, failed_builds,
                                    retry_results))

\* The second file failed before the first did, and the retry recovered one of
\* the two.
C21_Witness ==
    /\ pc = "retry"
    /\ pending = {}
    /\ failed_builds = <<2, 1>>
    /\ \E a \in lean_files : RetryGet(retry_results, a)
    /\ \E a \in lean_files : ~RetryGet(retry_results, a)

\* Every file compiled at its initial attempt of the first run.
AllCompiledFirst ==
    /\ run = 2
    /\ \A a \in lean_files : first_run.compiled[<<1, a, "initial">>] = <<TRUE>>

\* C22: when every file compiles, the second of two runs in a row regenerates
\* nothing and writes no file, as the first; the summary of its build check has
\* the success set of the first run and empty failed, recovered and
\* still-failed lists, and it ends as the first run did.
C22_Idempotent ==
    AllCompiledFirst =>
        /\ first_run.regen_done = {}
        /\ regen_done = {} /\ wrote = {}
        /\ content = first_run.content
        /\ pc \notin {"backup", "regen", "postregen", "restore", "done"}
        /\ pc = "returned" =>
               /\ Range(summary.successful_blocks) =
                      Range(first_run.summary1.successful_blocks)
               /\ summary.failed_blocks = <<>>
               /\ summary.recovered_blocks = <<>>
               /\ summary.still_failed_blocks = <<>>
        /\ pc = "nothing_to_regenerate" =>
               /\ Range(summary1.successful_blocks) = lean_files
               /\ Range(first_run.summary1.successful_blocks) = lean_files
               /\ summary1.failed_blocks = first_run.summary1.failed_blocks
               /\ summary1.total_files = first_run.summary1.total_files
               /\ summary1.success_rate = first_run.summary1.success_rate
               /\ exit_status = first_run.exit_status

\* Both runs compiled two files, in different orders of completion: the lists
\* of successes differ, the sets do not.
C22_Witness ==
    /\ AllCompiledFirst
    /\ pc = "nothing_to_regenerate"
    /\ lean_files = 1..2
    /\ summary1.successful_blocks # first_run.summary1.successful_blocks

\* Neither the cache nor backups_dir holds the original of artifact a.
NoBackup(a) == ~HasKey(original_cache, a) /\ ~HasKey(bak, a)

\* The text of artifact a is as the regeneration pass left it.
AsRegenerationLeftIt(a) ==
    IF a \in wrote THEN content[a] \in RegeneratedTexts ELSE content[a] = Original

\* C23: at the end of the run a still-failing artifact without a backup is not
\* in restored_originals and has the text the regeneration left; the artifacts
\* of the final failed list that are missing in restored_originals are exactly
\* those that were not written back.
C23_OmissionReadable ==
    pc = "done" =>
        \A a \in Range(final_failed) :
            /\ NoBackup(a) => a \notin Range(restored)
            /\ a \in Range(restored) => content[a] = Original
            /\ a \notin Range(restored) => AsRegenerationLeftIt(a)

\* Of two still-failing regenerated files one had no backup and was left, the
\* other was restored.
C23_Witness ==
    /\ pc = "done"
    /\ \E a \in Range(final_failed) : NoBackup(a) /\ a \in wrote
    /\ restored # <<>>

\* Every initial compile of build check c has completed.
InitialsCompleted(c) ==
    \A a \in lean_files : compiled[<<c, a, "initial">>] # <<>>

\* Every initial compile and every retry of build check c has completed.
CheckCompleted(c) ==
    /\ InitialsCompleted(c)
    /\ \A a \in lean_files :
           compiled[<<c, a, "initial">>] = <<FALSE>> =>
               compiled[<<c, a, "retry">>] # <<>>

\* A compile of the second pass has been submitted.
SecondPassStarted ==
    \/ call = 2
    \/ pc = "postregen"
    \/ \E k \in CompiledKeys : k[1] = 2 /\ compiled[k] # <<>>

\* The order of the passes: retries after the initial compiles, regeneration
\* after the first build check and the backup loop, the second pass after
\* every regeneration, the restore loop after the second pass; no compile is in
\* flight while files are backed up, regenerated or restored.
PassBarriers ==
    /\ \A c \in 1..2 :
           (\/ pc = "retry" /\ call = c
            \/ \E a \in Artifacts : compiled[<<c, a, "retry">>] # <<>>)
               => InitialsCompleted(c)
    /\ (regen_done # {} \/ wrote # {}) =>
           /\ CheckCompleted(1)
           /\ call = 2 \/ pc \notin {"start", "initial", "retry", "backup"}
    /\ SecondPassStarted => regen_done = Range(to_fix)
    /\ (restored # <<>> \/ pc = "done") =>
           /\ pending = {}
           /\ \A a \in Range(to_fix) : CompiledAfterRegen(a)
    /\ pc \in {"backup", "regen", "restore"} => pending = {}

\* C24: the passes are separated by barriers, and when a regeneration write
\* starts the backup of every file to fix has been taken.
C24_Barriers ==
    /\ PassBarriers
    /\ wrote # {} =>
           \A a \in Range(to_fix) : HasKey(original_cache, a) \/ HasKey(bak, a)

\* The verdicts given on the text artifact a has after the regenerations.
VerdictsOnFinalText(a) ==
    Verdicts(2, a) \cup (IF a \in wrote THEN {} ELSE Verdicts(1, a))

\* The artifacts whose text after the regenerations does not compile.
FailingFinally == {a \in lean_files : FALSE \in VerdictsOnFinalText(a)}

\* What main ends with is what the texts after the regenerations, the compiler
\* and the backups give, with no regard to the scope of the second pass.
OutcomeByContent ==
    /\ pc \in {"restore", "done"} => Range(final_failed) = FailingFinally
    /\ pc = "done" =>
           /\ exit_status = (IF FailingFinally = {} THEN 0 ELSE 1)
           /\ Range(restored) \subseteq FailingFinally
           /\ \A a \in lean_files :
                  /\ a \in Range(restored) => content[a] = Original
                  /\ a \notin Range(restored) => AsRegenerationLeftIt(a)
                  /\ (a \in FailingFinally /\ HasKey(original_cache, a)
                          /\ a \notin Range(restored)) => faults > 0

BackoffCap == 20

\* C26: inside chat_completion the delay is 1 second doubled once per retryable
\* failure and capped at 20, and no sleep before a retry is longer than the
\* cap, whatever the headers of the answer ask for.
C26_CappedBackoff ==
    /\ delay = Min(2 ^ Len(slept), BackoffCap)
    /\ \A i \in 1..Len(slept) : slept[i] <= BackoffCap

\* The artifacts that are not in the regeneration set: they passed the initial
\* attempt of the first build check or were recovered by its retry.
NotToRegenerate == InitialSucceeded(1) \cup RetrySucceeded(1)

\* C27: a step in which build_lean_file returns leaves every artifact as it
\* was, and after every step the artifacts that are not in the regeneration
\* set have the text they had at the start and were not written by
\* regenerate_file.
C27_Frame ==
    [][/\ compiled' # compiled => content' = content
       /\ \A a \in NotToRegenerate' :
              content'[a] = Original /\ a \notin wrote']_vars

\* Scope all: a file that passed the first check fails the second one and is in
\* the final failed list, while another file was regenerated; the rollback
\* has run.
C27_Witness ==
    /\ pc = "done"
    /\ wrote # {}
    /\ \E a \in Range(final_failed) : a \in NotToRegenerate

\* The lists of a summary as the compile outcomes of call 1 alone give them.
SummaryByOutcomes ==
    /\ Range(summary.successful_blocks) = InitialSucceeded(1) \cup RetrySucceeded(1)
    /\ Range(summary.failed_blocks) = InitialFailed(1) \ RetrySucceeded(1)
    /\ Range(summary.recovered_blocks) = RetrySucceeded(1)
    /\ summary.total_files = Cardinality(lean_files)

\* C28: a progress callback that raises on every event does not end
\* run_parallel_build_check: the call leaves by an exception only when saving
\* the summary failed, the init, file and done events are all delivered, and
\* the summary returned is the one the compile outcomes give.
C28_RaisingCallbackHarmless ==
    (HasCallback /\ cb_raises) =>
        /\ pc # "exception"
        /\ pc = "server_error" => faults > 0
        /\ pc # "start" => InitEventFirst /\ FileEventPerArtifact
        /\ pc \in {"returned", "server_done"} =>
              /\ DoneEventLast
              /\ Len(events) = Cardinality(lean_files) + 2
              /\ SummaryByOutcomes

\* The callback raised on every one of its calls, a file was retried, and the
\* call has returned its summary.
C28_Witness ==
    /\ HasCallback
    /\ cb_raises
    /\ pc = "server_done"
    /\ Len(events) = Cardinality(lean_files) + 2
    /\ summary.recovered_blocks # <<>>
    /\ summary.still_failed_blocks # <<>>

\* The counters of BUILD_STATUS add up.
CountersAddUp ==
    BUILD_STATUS.completed = BUILD_STATUS.successes + Len(BUILD_STATUS.failures)

\* C29: at most one build is in progress; a /build-start that arrives while a
\* build is in progress is answered 409 and starts no thread; and
\* completed = successes + number of failures <= total.
C29_SingleBuild ==
    /\ Cardinality(BuildsInProgress) <= 1
    /\ \A r \in Requests :
          (handlers[r].busy /\ handlers[r].pc = "answered") =>
              /\ handlers[r].response \in {400, 409}
              /\ build_threads[r].pc = "none"
    /\ CountersAddUp
    /\ BUILD_STATUS.completed <= BUILD_STATUS.total

\* The calls of chat_completion and the requests stay within their budgets.
WithinBudgets ==
    /\ Len(chat_calls) <= Retries + 1
    /\ requests <= RequestBudget

\* C30: regenerate_file ends by returning a (path, ok, error) result and never
\* by an exception, it calls chat_completion at most retries + 1 times, and at
\* most 5 * (retries + 1) requests are sent for the artifact.
C30_BoundedWork ==
    /\ regen_pc # "raised"
    /\ RegenReturned => regen_result # NoResult
    /\ WithinBudgets
====
